---- MODULE Spec2Model ----
(***************************************************************************)
(* Stepper-motor friction evaluator: the recording orchestration           *)
(* (Views/recordingwindow.py), the force-sensor reader                     *)
(* (Controllers/sensorcontroller.py), the motor controller                 *)
(* (Controllers/motorcontroller.py) and the connection window              *)
(* (Views/mainwindow.py), as one state machine.                            *)
(*                                                                         *)
(* Execution contexts: the Tk main thread (GUI handlers, one action per    *)
(* handler), the BLE asyncio loop thread (coroutines queued by             *)
(* run_coroutine_threadsafe, one action per coroutine segment), one        *)
(* recording thread per pressed Start Recording (one action per blocking   *)
(* statement of _recording_task), the to_thread worker that runs           *)
(* send_move_command, and the motor connection thread.                     *)
(*                                                                         *)
(* Spec        the whole application from main().                          *)
(* SensorSpec  the AsyncSensorReader alone, its methods called in any      *)
(*             order (stop_reading with both arguments).                   *)
(* MotorSpec   the MotorController alone, its methods called in any order. *)
(* SaveSpec    _save_data applied to bounded buffers and start times.      *)
(* FilterSpec  hampel_filter applied to bounded arrays and window sizes.   *)
(* FormSpec    the recording window alone, once it has opened: its edits,  *)
(*             direction clicks, Start presses and recording threads.      *)
(* RunSpec     recording runs under telemetry, from the filled-in window.  *)
(* WaitSpec    the open-loop wait computed for validated run parameters.   *)
(***************************************************************************)
EXTENDS Integers, Sequences, FiniteSets, TLC

\* ------------------------------------------------------------------ bounds
MaxRuns == 1
MaxFormRuns == 2
MaxPush == 2
MaxTime == 1
MaxLog == 3
MaxStamp == 2
MaxFiles == 2
MaxCmds == 3
MaxVals == 4
MaxWindow == 5
MaxCm == 120

\* ------------------------------------------------------- program constants
\* result(timeout=5) of the arm confirmation, recordingwindow.py:267
ArmTimeoutS == 5
\* stop_reading(self, distance_cm, speed_mps): two arguments besides self
StopReadingArity == 2

VARIABLES
    \* --- AsyncSensorReader (sensorcontroller.py:41-48)
    client,               \* "None" or "BleakClient"
    client_is_connected,  \* client.is_connected (the BLE link)
    notifying,            \* start_notify is in force on the client
    sensor_is_connected,  \* AsyncSensorReader.is_connected
    is_reading,
    collected_data,       \* sequence of <<host_time, line>>
    start_time_host_s,
    \* --- MotorController (motorcontroller.py:11-15)
    serial,               \* "None", "open" or "closed"
    motor_is_connected,   \* MotorController.is_connected
    commands,             \* the move commands written to the serial channel
    \* --- MainWindow (mainwindow.py:26-33)
    motor_connected, sensor_connected,
    motor_btn, sensor_btn, start_app_btn,
    recording_window,     \* "None" or "open"
    motor_task,           \* the motor connection thread's position
    \* --- RecordingWindow (recordingwindow.py:31-34, 115-127)
    cm_input, speed_input, direction_input, start_btn,
    \* --- Tk: callbacks queued with after(0, ...), and mainloop running
    tk_after, mainloop,
    \* --- the BLE event loop: coroutines queued on it, in order
    ble_queue,
    \* --- recording threads
    pc, args, fut, motor_output,
    \* --- host clock (time.time()) and the file system
    now, files,
    \* --- history (not program state): what each run did
    pushes, arm_result, armed_by, dispatched, wrote, waited, fault, stop_calls,
    reported,
    \* --- SaveSpec: the arguments and the effects of one _save_data call
    sv_log, sv_start, sv_pc, sv_out,
    \* --- history: the last call made on a controller's own API, what it
    \*     returned, and a bit that flips with every call
    last_call,
    \* --- FilterSpec: the arguments and the result of one hampel_filter call
    fl_orig, fl_vals, fl_window, fl_sigmas, fl_pc, fl_out,
    \* --- WaitSpec: the arguments and the result of one time_to_wait
    wt_cm, wt_speed, wt_pc, wt_out,
    \* --- the to_thread worker of stop_reading that runs _save_data: whether
    \*     it is in flight, and the arguments it was started with
    saving

sensor_vars == <<client, client_is_connected, notifying, sensor_is_connected,
                 is_reading, collected_data, start_time_host_s>>
motor_vars == <<serial, motor_is_connected, commands>>
main_vars == <<motor_connected, sensor_connected, motor_btn, sensor_btn,
               start_app_btn, recording_window, motor_task>>
rec_vars == <<cm_input, speed_input, direction_input, start_btn>>
run_vars == <<pc, args, fut, motor_output>>
hist_vars == <<pushes, arm_result, armed_by, dispatched, wrote, waited, fault,
               stop_calls, reported>>
save_vars == <<sv_log, sv_start, sv_pc, sv_out>>
api_vars == <<last_call>>
filter_vars == <<fl_orig, fl_vals, fl_window, fl_sigmas, fl_pc, fl_out>>
wait_vars == <<wt_cm, wt_speed, wt_pc, wt_out>>
vars == <<sensor_vars, motor_vars, main_vars, rec_vars, tk_after, mainloop,
          ble_queue, run_vars, now, files, hist_vars, save_vars, api_vars,
          filter_vars, wait_vars, saving>>

Runs == 1..MaxFormRuns
Times == 0..MaxTime

\* Numbers read from a line or computed by the filter are carried in
\* quarters (4 * value): the median of an even window of integers is a half,
\* the median of its absolute deviations a quarter.
Scale == 4

\* ------------------------------------------------------------- telemetry
\* A decoded line: numeric text (float() accepts it), with the value it
\* parses to in quarters, or other text. Num(n) is the text of the integer
\* n, Quarters(q) the text of q / 4 (Quarters(11) is "2.75").
Num(n) == [numeric |-> TRUE, val |-> Scale * n]
Quarters(q) == [numeric |-> TRUE, val |-> q]
Text == [numeric |-> FALSE, val |-> 0]

\* A notification payload: the line it carries, padded or not with
\* whitespace / undecodable bytes.
Payloads == {[line |-> Num(5), pad |-> TRUE], [line |-> Text, pad |-> FALSE]}

\* data.decode('utf-8', errors='ignore').strip()  (sensorcontroller.py:60)
Decode(data) == data.line

\* ---------------------------------------------------------- hampel_filter
\* 1.4826, in ten-thousandths (sensorcontroller.py:20)
K10000 == 14826

Abs(x) == IF x < 0 THEN -x ELSE x

Max(a, b) == IF a > b THEN a ELSE b

Min(a, b) == IF a < b THEN a ELSE b

\* the lower middle element instead of the mean of the two middle ones
MedianLower(w) ==
    LET s == SortSeq(w, LAMBDA a, b: a < b)
    IN  s[(Len(s) + 1) \div 2]

\* np.median of a non-empty sequence of scaled numbers
Median(w) ==
    LET s == SortSeq(w, LAMBDA a, b: a < b)
        n == Len(s)
    IN  IF n % 2 = 1 THEN s[(n + 1) \div 2]
        ELSE (s[n \div 2] + s[n \div 2 + 1]) \div 2

\* vals[start:end], 0-based half-open, as Python slices
Slice(vals, start, end) == SubSeq(vals, start + 1, end)

\* hampel_filter(vals, window_size, n_sigmas) on scaled numbers
\* (sensorcontroller.py:16-33). The comparison
\* abs(vals[i] - med) > n_sigmas * k * mad is exact in integers; the floating
\* point product differs from it only when 1000 * |v - med| = 7413 * mad,
\* beyond any value the model reaches.
HampelAtNoZeroCheck(vals, i, window_size, n_sigmas) ==
    LET n == Len(vals)
        half_w == window_size \div 2
        start == Max(0, i - half_w)
        end == Min(n, i + half_w + 1)
        window == Slice(vals, start, end)
        med == Median(window)
        mad == Median([j \in 1..Len(window) |-> Abs(window[j] - med)])
    IN  IF 10000 * Abs(vals[i + 1] - med) > n_sigmas * K10000 * mad
        THEN med
        ELSE vals[i + 1]

HampelAt(vals, i, window_size, n_sigmas) ==
    LET n == Len(vals)
        half_w == window_size \div 2
        start == Max(0, i - half_w)
        end == Min(n, i + half_w + 1)
        window == Slice(vals, start, end)
        med == Median(window)
        mad == Median([j \in 1..Len(window) |-> Abs(window[j] - med)])
    IN  IF mad = 0 THEN vals[i + 1]
        ELSE IF 10000 * Abs(vals[i + 1] - med) > n_sigmas * K10000 * mad
             THEN med
             ELSE vals[i + 1]

hampel_filter(vals, window_size, n_sigmas) ==
    [j \in 1..Len(vals) |-> HampelAt(vals, j - 1, window_size, n_sigmas)]

\* ------------------------------------------------------------- _save_data
\* window_size=11, n_sigmas=5.0 at the call (sensorcontroller.py:184)
WindowSize == 11
NSigmas == 5

\* Host times are carried at the resolution of the persisted column, one
\* microsecond. f"{host_time:.6f}": whole seconds and six decimals.
Format6(host_time) == <<host_time \div 1000000, host_time % 1000000>>

\* int(x) of a scaled number: truncation toward zero (sensorcontroller.py:191)
IntOf(q) == IF q >= 0 THEN q \div Scale ELSE -((-q) \div Scale)

\* the comprehension without its condition
KeepAll(host_time, start_time) == TRUE

\* [(host_time, line) for host_time, line in log_data if host_time >= start_time]
\* (sensorcontroller.py:174-177)
Keep(host_time, start_time) == host_time >= start_time

AfterStart(log_data, start_time) ==
    SelectSeq(log_data, LAMBDA e: Keep(e[1], start_time))

\* np.array([...], dtype=float) raises ValueError on a non-numeric line
\* (sensorcontroller.py:183)
AllNumeric(after_start) == \A j \in 1..Len(after_start): after_start[j][2].numeric

\* f'{timestamp_s}_{int(distance_cm)}cm_{speed_str}mps_grip_data.csv'
\* (sensorcontroller.py:165-171); speeds are carried in hundredths of m/s,
\* which is what f"{speed_mps:.2f}" keeps.
FileName(t, distance_cm, speed) == <<t \div 1000000, distance_cm, speed>>

\* The rows written after the header (sensorcontroller.py:183-191)
Rows(after_start) ==
    LET raw_values == [j \in 1..Len(after_start) |-> after_start[j][2].val]
        filtered_values == hampel_filter(raw_values, WindowSize, NSigmas)
    IN  [j \in 1..Len(after_start) |->
            [time |-> Format6(after_start[j][1]),
             raw |-> after_start[j][2],
             filt |-> IntOf(filtered_values[j])]]

\* _save_data(log_data, start_time, distance_cm, speed_mps) at host time t:
\* what it leaves behind (sensorcontroller.py:157-193).
\*   dir    os.makedirs('readings') was called
\*   opened a file was opened for writing (created or truncated)
\*   file   its name
\*   rows   the rows written to it after the header
\*   raised the call ended with ValueError
\*   ret    the value returned: every return of the function is a bare one
NoSave == [dir |-> FALSE, opened |-> FALSE, file |-> <<>>, rows |-> <<>>,
           raised |-> FALSE, ret |-> "None"]

save_data(log_data, start_time, distance_cm, speed, t) ==
    LET after_start == AfterStart(log_data, start_time)
    IN  IF Len(log_data) = 0
        THEN NoSave
        ELSE IF Len(after_start) = 0
        THEN [dir |-> TRUE, opened |-> FALSE, file |-> <<>>, rows |-> <<>>,
              raised |-> FALSE, ret |-> "None"]
        ELSE IF ~AllNumeric(after_start)
        THEN [dir |-> TRUE, opened |-> FALSE, file |-> <<>>, rows |-> <<>>,
              raised |-> TRUE, ret |-> "raised"]
        ELSE [dir |-> TRUE, opened |-> TRUE,
              file |-> FileName(t, distance_cm, speed),
              rows |-> Rows(after_start), raised |-> FALSE, ret |-> "None"]

\* ------------------------------------------------------ AsyncSensorReader
\* notification_handler without the is_reading check
notification_handler_unguarded(buf, reading, host_time, data) ==
    Append(buf, <<host_time, Decode(data)>>)

\* notification_handler(sender, data) at host time host_time: the buffer
\* it leaves (sensorcontroller.py:51-65). decode(errors='ignore') does not
\* raise, so the except branch adds nothing.
notification_handler(buf, reading, host_time, data) ==
    IF reading THEN Append(buf, <<host_time, Decode(data)>>) ELSE buf

\* start_reading() without collected_data.clear()
start_reading_keeps_buffer(c, c_conn, buf, start, reading, t) ==
    IF c # "None" /\ c_conn
    THEN [ok |-> TRUE, buf |-> buf, start |-> t, reading |-> TRUE]
    ELSE [ok |-> FALSE, buf |-> buf, start |-> start, reading |-> reading]

\* start_reading() at host time t (sensorcontroller.py:132-140)
start_reading(c, c_conn, buf, start, reading, t) ==
    IF c # "None" /\ c_conn
    THEN [ok |-> TRUE, buf |-> <<>>, start |-> t, reading |-> TRUE]
    ELSE [ok |-> FALSE, buf |-> buf, start |-> start, reading |-> reading]

\* Python binds a call's arguments before the coroutine object exists:
\* stop_reading(self, distance_cm, speed_mps) (sensorcontroller.py:141)
\* called with `given` positional arguments raises TypeError unless they are
\* the two it declares.
StopReadingBinds(given) == given = StopReadingArity

\* The two call sites in _recording_task pass none
\* (recordingwindow.py:285 and :295).
StopCallArgs == 0

\* ---------------------------------------------------------- MotorController
\* close() (motorcontroller.py:96-101): the serial it leaves, and is_connected
close_serial_noop(ser) == ser

close_serial(ser) == IF ser = "open" THEN "closed" ELSE ser

close_is_connected(ser, conn) == IF ser = "open" THEN FALSE ELSE conn

\* the guard without its is_open half
DisconnectedUnset(ser) == ser = "None"

\* _run_command's guard (motorcontroller.py:37-39)
Disconnected(ser) == ser # "open"

Sentinel == "ERROR: DISCONNECTED"

\* ------------------------------------------------------------- input texts
\* What the user can type in the two Entry fields; "" is the empty field.
CmTexts == {"0", "50"}
SpeedTexts == {"0.5"}

\* int(text) succeeds (recordingwindow.py:203, 234)
IsInt(text) == text \in {"0", "50"}

IntVal(text) == IF text = "50" THEN 50 ELSE 0

\* float(text) succeeds (recordingwindow.py:210, 235); the value in
\* hundredths of m/s
IsFloat(text) == text \in {"0", "50", "0.5"}

FloatVal100(text) == IF text = "0.5" THEN 50 ELSE IF text = "50" THEN 5000 ELSE 0

\* _validate_inputs() with a range check that accepts any parsed number
validate_inputs_any_number(cm, speed, direction, m_conn, s_conn) ==
    LET cm_valid == IsInt(cm)
        speed_valid == IsFloat(speed)
        direction_valid == direction \in {0, 1}
    IN  IF m_conn /\ s_conn /\ cm_valid /\ speed_valid /\ direction_valid
        THEN "normal" ELSE "disabled"

\* _validate_inputs(): the Start button's state (recordingwindow.py:196-229)
validate_inputs(cm, speed, direction, m_conn, s_conn) ==
    LET cm_valid == IsInt(cm) /\ IntVal(cm) > 0
        speed_valid == IsFloat(speed) /\ 0 < FloatVal100(speed)
                         /\ FloatVal100(speed) <= 100
        direction_valid == direction \in {0, 1}
    IN  IF m_conn /\ s_conn /\ cm_valid /\ speed_valid /\ direction_valid
        THEN "normal" ELSE "disabled"

\* _check_start_condition() (mainwindow.py:88-95)
check_start_condition(m, s) == IF m /\ s THEN "normal" ELSE "disabled"

\* History of a run's serial write: whether it happened, and whether the
\* reader was then armed, and armed by this run's own start_reading.
NotWritten == [done |-> FALSE, armed |-> FALSE, own |-> FALSE]

NoArgs == [distance_cm |-> 0, speed |-> 0, direction |-> -1]

\* A coroutine queued on the BLE loop by run_coroutine_threadsafe: which one,
\* for which recording thread (0: none), whether a done callback is attached,
\* and the thread position that awaits its result.
Job(kind, r, cb, await) == [kind |-> kind, run |-> r, cb |-> cb, await |-> await]

\* -------------------------------------------------------------------- Init
\* After main() has built the controllers, the loop and the MainWindow
\* (app.py:32-43). The RecordingWindow's fields hold what its constructor
\* gives them; the SaveSpec variables are idle.
SaveIdle ==
    /\ sv_log = <<>> /\ sv_start = 0 /\ sv_pc = "idle" /\ sv_out = NoSave

AppInit ==
    /\ client = "None" /\ client_is_connected = FALSE /\ notifying = FALSE
    /\ sensor_is_connected = FALSE /\ is_reading = FALSE
    /\ collected_data = <<>> /\ start_time_host_s = 0
    /\ serial = "None" /\ motor_is_connected = FALSE /\ commands = <<>>
    /\ motor_connected = FALSE /\ sensor_connected = FALSE
    /\ motor_btn = "normal" /\ sensor_btn = "normal"
    /\ start_app_btn = "disabled" /\ recording_window = "None"
    /\ motor_task = "idle"
    /\ cm_input = "" /\ speed_input = "" /\ direction_input = -1
    /\ start_btn = "disabled"
    /\ tk_after = <<>> /\ mainloop = TRUE /\ ble_queue = <<>>
    /\ pc = [r \in Runs |-> "none"] /\ args = [r \in Runs |-> NoArgs]
    /\ fut = [r \in Runs |-> "none"]
    /\ motor_output = [r \in Runs |-> "none"]
    /\ now = 0 /\ files = <<>>
    /\ pushes = 0
    /\ arm_result = [r \in Runs |-> "none"]
    /\ armed_by = 0
    /\ dispatched = [r \in Runs |-> FALSE]
    /\ wrote = [r \in Runs |-> NotWritten]
    /\ waited = [r \in Runs |-> FALSE]
    /\ fault = [r \in Runs |-> "none"]
    /\ stop_calls = [r \in Runs |-> 0]
    /\ reported = [r \in Runs |-> <<>>]

\* A call made on a controller's own API: which method, what it returned
\* ("True", "False", a string, or "raised"), and a bit that flips with every
\* call.
Call(op, ret, seq) == [op |-> op, ret |-> ret, seq |-> seq]

ApiIdle == last_call = Call("none", "none", 0)

FilterIdle ==
    /\ fl_orig = <<>> /\ fl_vals = <<>> /\ fl_window = 0 /\ fl_sigmas = 0
    /\ fl_pc = "idle" /\ fl_out = <<>>

\* A wait in seconds, as the fraction num / den.
Seconds(num, den) == [num |-> num, den |-> den]

WaitIdle == wt_cm = 0 /\ wt_speed = 0 /\ wt_pc = "idle" /\ wt_out = Seconds(0, 1)

NotSaving == [on |-> FALSE, start |-> 0, distance_cm |-> 0, speed |-> 0]

WorkerIdle == saving = NotSaving

Init == AppInit /\ SaveIdle /\ ApiIdle /\ FilterIdle /\ WaitIdle /\ WorkerIdle

\* ------------------------------------------------------------- MainWindow
MainVisible == mainloop /\ recording_window = "None"

\* _start_motor_connection_thread() (mainwindow.py:99-114)
MotorButton ==
    /\ MainVisible /\ motor_btn = "normal"
    /\ IF motor_connected
       THEN /\ serial' = close_serial(serial)
            /\ motor_is_connected' = close_is_connected(serial, motor_is_connected)
            /\ motor_connected' = FALSE
            /\ motor_btn' = "normal"
            /\ start_app_btn' = check_start_condition(FALSE, sensor_connected)
            /\ UNCHANGED motor_task
       ELSE /\ motor_btn' = "disabled"
            /\ motor_task' = "open"
            /\ UNCHANGED <<serial, motor_is_connected, motor_connected, start_app_btn>>
    /\ UNCHANGED <<sensor_vars, commands, sensor_connected, sensor_btn,
                   recording_window, rec_vars, tk_after, mainloop, ble_queue,
                   run_vars, now, files, hist_vars, save_vars, api_vars,
                   filter_vars,
                   wait_vars, saving>>

\* connect_to_pico(), opening the port (motorcontroller.py:66-70): it opens,
\* or serial.Serial raises SerialException and the thread reports False
\* (motorcontroller.py:91-94, mainwindow.py:116-122).
MotorConnectOpen ==
    /\ motor_task = "open"
    /\ \E opened \in BOOLEAN:
        IF opened
        THEN /\ serial' = "open"
             /\ motor_task' = "handshake"
             /\ UNCHANGED <<motor_is_connected, tk_after>>
        ELSE /\ motor_is_connected' = FALSE
             /\ motor_task' = "idle"
             /\ tk_after' = Append(tk_after, [cb |-> "motor_result", ok |-> FALSE, run |-> 0])
             /\ UNCHANGED serial
    /\ UNCHANGED <<sensor_vars, commands, motor_connected, sensor_connected,
                   motor_btn, sensor_btn, start_app_btn, recording_window,
                   rec_vars, mainloop, ble_queue, run_vars, now, files,
                   hist_vars, save_vars, api_vars,
                   filter_vars,
                   wait_vars, saving>>

\* connect_to_pico(), the handshake and the prompt (motorcontroller.py:72-94):
\* the prompt is seen, or it is not (close() follows), or a write or read
\* raises SerialException (the port stays as it is).
MotorConnectHandshake ==
    /\ motor_task = "handshake"
    /\ \E outcome \in {"prompt", "silent", "raise"}:
        /\ motor_is_connected' = (outcome = "prompt")
        /\ serial' = IF outcome = "silent" THEN close_serial(serial) ELSE serial
        /\ tk_after' = Append(tk_after, [cb |-> "motor_result",
                                         ok |-> (outcome = "prompt"), run |-> 0])
    /\ motor_task' = "idle"
    /\ UNCHANGED <<sensor_vars, commands, motor_connected, sensor_connected,
                   motor_btn, sensor_btn, start_app_btn, recording_window,
                   rec_vars, mainloop, ble_queue, run_vars, now, files,
                   hist_vars, save_vars, api_vars,
                   filter_vars,
                   wait_vars, saving>>

\* _start_sensor_connection_async() (mainwindow.py:135-155)
SensorButton ==
    /\ MainVisible /\ sensor_btn = "normal"
    /\ sensor_btn' = "disabled"
    /\ ble_queue' = Append(ble_queue,
           Job(IF sensor_connected THEN "disconnect_device" ELSE "connect_device",
               0, TRUE, "none"))
    /\ UNCHANGED <<sensor_vars, motor_vars, motor_connected, sensor_connected,
                   motor_btn, start_app_btn, recording_window, motor_task,
                   rec_vars, tk_after, mainloop, run_vars, now, files,
                   hist_vars, save_vars, api_vars,
                   filter_vars,
                   wait_vars, saving>>

\* _start_application() (mainwindow.py:204-219) and RecordingWindow.__init__
\* (recordingwindow.py:31-40, 115-127)
StartApplication ==
    /\ MainVisible /\ start_app_btn = "normal"
    /\ IF motor_connected /\ sensor_connected
       THEN /\ recording_window' = "open"
            /\ cm_input' = "" /\ speed_input' = "" /\ direction_input' = -1
            /\ start_btn' = "disabled"
       ELSE UNCHANGED <<recording_window, rec_vars>>
    /\ UNCHANGED <<sensor_vars, motor_vars, motor_connected, sensor_connected,
                   motor_btn, sensor_btn, start_app_btn, motor_task, tk_after,
                   mainloop, ble_queue, run_vars, now, files, hist_vars,
                   save_vars, api_vars,
                   filter_vars,
                   wait_vars, saving>>

\* ---------------------------------------------------------- the BLE loop
\* The loop runs the coroutines queued on it one at a time, oldest first.
Front == ble_queue[1]

\* The states of a run's future in which its work occupies the event-loop
\* thread. async_run_command hands command_func to asyncio.to_thread
\* (motorcontroller.py:31-33) and the wait is asyncio.sleep
\* (recordingwindow.py:282): the serial exchange runs on a worker thread and
\* the sleep is a timer, so there is no such state.
OnLoopThreadDirectCall == {"running", "writing"}

OnLoopThread == {}

LoopBlocked == \E r \in Runs: fut[r] \in OnLoopThread

\* connect_device() (sensorcontroller.py:69-110). A stale client is
\* disconnected first, outside the try: that await may raise, and the
\* exception leaves the coroutine. Then: the device is not found or the link
\* does not come up ("no_link"), start_notify raises ("notify_raise"), or the
\* subscription is active ("ok"). The done callback queues
\* _handle_sensor_result (mainwindow.py:157-174).
connect_device(outcome) ==
    /\ outcome = "stale_raise" => client # "None"
    /\ IF outcome = "stale_raise"
       THEN UNCHANGED <<client, client_is_connected, notifying, sensor_is_connected>>
       ELSE /\ client' = IF outcome = "not_found" THEN "None" ELSE "BleakClient"
            /\ client_is_connected' = (outcome \in {"notify_raise", "ok"})
            /\ notifying' = (outcome = "ok")
            /\ sensor_is_connected' = (outcome = "ok")

ConnectOutcomes == {"stale_raise", "not_found", "no_link", "notify_raise", "ok"}

LoopConnectDevice ==
    /\ ~LoopBlocked
    /\ ble_queue # <<>> /\ Front.kind = "connect_device"
    /\ \E outcome \in ConnectOutcomes:
        /\ connect_device(outcome)
        /\ tk_after' = IF Front.cb
                       THEN Append(tk_after, [cb |-> "sensor_result",
                                              ok |-> (outcome = "ok"), run |-> 0])
                       ELSE tk_after
    /\ ble_queue' = Tail(ble_queue)
    /\ UNCHANGED <<is_reading, collected_data, start_time_host_s, motor_vars,
                   main_vars, rec_vars, mainloop, run_vars, now, files,
                   hist_vars, save_vars, api_vars,
                   filter_vars,
                   wait_vars, saving>>

\* disconnect_device() (sensorcontroller.py:112-125); client.disconnect() may
\* raise, which leaves is_connected as it was. The main window's done
\* callback queues _handle_sensor_result(False) (mainwindow.py:177-191).
disconnect_device(raises) ==
    /\ raises => sensor_is_connected /\ client # "None" /\ client_is_connected
    /\ IF raises \/ ~sensor_is_connected
       THEN UNCHANGED <<client_is_connected, notifying, sensor_is_connected>>
       ELSE /\ sensor_is_connected' = FALSE
            /\ IF client # "None" /\ client_is_connected
               THEN client_is_connected' = FALSE /\ notifying' = FALSE
               ELSE UNCHANGED <<client_is_connected, notifying>>

LoopDisconnectDevice ==
    /\ ~LoopBlocked
    /\ ble_queue # <<>> /\ Front.kind = "disconnect_device"
    /\ \E raises \in BOOLEAN: disconnect_device(raises)
    /\ tk_after' = IF Front.cb
                   THEN Append(tk_after, [cb |-> "sensor_result", ok |-> FALSE, run |-> 0])
                   ELSE tk_after
    /\ ble_queue' = Tail(ble_queue)
    /\ UNCHANGED <<client, is_reading, collected_data, start_time_host_s,
                   motor_vars, main_vars, rec_vars, mainloop, run_vars, now,
                   files, hist_vars, save_vars, api_vars,
                   filter_vars,
                   wait_vars, saving>>

\* The start_reading() / stop_reading() coroutines
\* (sensorcontroller.py:132-155). stop_reading hands the buffer to _save_data
\* on a worker thread and awaits it; a ValueError of _save_data is the
\* coroutine's exception.
LoopReading ==
    /\ ~LoopBlocked
    /\ ble_queue # <<>> /\ Front.kind \in {"start_reading", "stop_reading"}
    /\ LET r == Front.run
           awaited == fut[r] = "queued" /\ pc[r] = Front.await
       IN  IF Front.kind = "start_reading"
           THEN LET res == start_reading(client, client_is_connected, collected_data,
                                         start_time_host_s, is_reading, now)
                IN  /\ collected_data' = res.buf
                    /\ start_time_host_s' = res.start
                    /\ is_reading' = res.reading
                    /\ arm_result' = [arm_result EXCEPT ![r] = IF res.ok THEN "True" ELSE "False"]
                    /\ armed_by' = IF res.ok THEN r ELSE armed_by
                    /\ fut' = IF awaited THEN [fut EXCEPT ![r] = "done"] ELSE fut
                    /\ UNCHANGED <<files, stop_calls>>
           ELSE LET saved == save_data(collected_data, start_time_host_s,
                                       args[r].distance_cm, args[r].speed, now)
                IN  /\ is_reading' = FALSE
                    /\ files' = IF saved.opened THEN Append(files, saved) ELSE files
                    /\ stop_calls' = [stop_calls EXCEPT ![r] = @ + 1]
                    /\ fut' = IF awaited
                              THEN [fut EXCEPT ![r] = IF saved.raised THEN "raised" ELSE "done"]
                              ELSE fut
                    /\ UNCHANGED <<collected_data, start_time_host_s, arm_result, armed_by>>
    /\ ble_queue' = Tail(ble_queue)
    /\ UNCHANGED <<client, client_is_connected, notifying, sensor_is_connected,
                   motor_vars, main_vars, rec_vars, tk_after, mainloop, pc, args,
                   motor_output, now, pushes, dispatched, wrote, waited,
                   fault, reported, save_vars, api_vars,
                   filter_vars,
                   wait_vars, saving>>

\* async_run_command: asyncio.to_thread starts the worker that runs
\* send_move_command (motorcontroller.py:31-33)
LoopToThread ==
    /\ ~LoopBlocked
    /\ ble_queue # <<>> /\ Front.kind = "to_thread"
    /\ fut' = [fut EXCEPT ![Front.run] = "running"]
    /\ ble_queue' = Tail(ble_queue)
    /\ UNCHANGED <<sensor_vars, motor_vars, main_vars, rec_vars, tk_after,
                   mainloop, pc, args, motor_output, now, files,
                   hist_vars, save_vars, api_vars,
                   filter_vars,
                   wait_vars, saving>>

\* asyncio.sleep(time_to_wait) starts its timer (recordingwindow.py:282)
LoopSleep ==
    /\ ~LoopBlocked
    /\ ble_queue # <<>> /\ Front.kind = "sleep"
    /\ fut' = [fut EXCEPT ![Front.run] = "sleeping"]
    /\ ble_queue' = Tail(ble_queue)
    /\ UNCHANGED <<sensor_vars, motor_vars, main_vars, rec_vars, tk_after,
                   mainloop, pc, args, motor_output, now, files,
                   hist_vars, save_vars, api_vars,
                   filter_vars,
                   wait_vars, saving>>

\* The sleep's time_to_wait seconds have passed.
TimerFire(r) ==
    /\ fut[r] = "sleeping"
    /\ fut' = [fut EXCEPT ![r] = "done"]
    /\ UNCHANGED <<sensor_vars, motor_vars, main_vars, rec_vars, tk_after,
                   mainloop, ble_queue, pc, args, motor_output, now,
                   files, hist_vars, save_vars, api_vars,
                   filter_vars,
                   wait_vars, saving>>

\* A notification of the subscribed characteristic is dispatched to
\* notification_handler on the loop (sensorcontroller.py:51-65, :97).
Notify(data) ==
    /\ client # "None" /\ client_is_connected /\ notifying
    /\ ~LoopBlocked
    /\ pushes < MaxPush
    /\ pushes' = pushes + 1
    /\ collected_data' = notification_handler(collected_data, is_reading, now, data)
    /\ UNCHANGED <<client, client_is_connected, notifying, sensor_is_connected,
                   is_reading, start_time_host_s, motor_vars, main_vars,
                   rec_vars, tk_after, mainloop, ble_queue, run_vars, now,
                   files, arm_result, armed_by, dispatched, wrote, waited,
                   fault, stop_calls, reported, save_vars, api_vars,
                   filter_vars,
                   wait_vars, saving>>

\* The BLE link is lost: the client reports is_connected False and no
\* notification follows.
LinkDrop ==
    /\ client # "None" /\ client_is_connected
    /\ client_is_connected' = FALSE
    /\ notifying' = FALSE
    /\ UNCHANGED <<client, sensor_is_connected, is_reading, collected_data,
                   start_time_host_s, motor_vars, main_vars, rec_vars, tk_after,
                   mainloop, ble_queue, run_vars, now, files, hist_vars,
                   save_vars, api_vars,
                   filter_vars,
                   wait_vars, saving>>

\* The host clock advances.
Tick ==
    /\ now < MaxTime
    /\ now' = now + 1
    /\ UNCHANGED <<sensor_vars, motor_vars, main_vars, rec_vars, tk_after,
                   mainloop, ble_queue, run_vars, files, hist_vars, save_vars, api_vars,
                   filter_vars,
                   wait_vars, saving>>

\* -------------------------------------------------------- RecordingWindow
RecVisible == mainloop /\ recording_window = "open"

\* The user types in the Distance field; the write trace runs
\* _validate_inputs (recordingwindow.py:39, 196-229).
EditCm(text) ==
    /\ RecVisible /\ text # cm_input
    /\ cm_input' = text
    /\ start_btn' = validate_inputs(text, speed_input, direction_input,
                                    motor_is_connected, sensor_is_connected)
    /\ UNCHANGED <<sensor_vars, motor_vars, main_vars, speed_input,
                   direction_input, tk_after, mainloop, ble_queue, run_vars,
                   now, files, hist_vars, save_vars, api_vars,
                   filter_vars,
                   wait_vars, saving>>

\* The user types in the Speed field (recordingwindow.py:40, 196-229).
EditSpeed(text) ==
    /\ RecVisible /\ text # speed_input
    /\ speed_input' = text
    /\ start_btn' = validate_inputs(cm_input, text, direction_input,
                                    motor_is_connected, sensor_is_connected)
    /\ UNCHANGED <<sensor_vars, motor_vars, main_vars, cm_input,
                   direction_input, tk_after, mainloop, ble_queue, run_vars,
                   now, files, hist_vars, save_vars, api_vars,
                   filter_vars,
                   wait_vars, saving>>

\* _set_direction(value) (recordingwindow.py:181-194)
SetDirection(value) ==
    /\ RecVisible
    /\ direction_input' = value
    /\ start_btn' = validate_inputs(cm_input, speed_input, value,
                                    motor_is_connected, sensor_is_connected)
    /\ UNCHANGED <<sensor_vars, motor_vars, main_vars, cm_input, speed_input,
                   tk_after, mainloop, ble_queue, run_vars, now, files,
                   hist_vars, save_vars, api_vars,
                   filter_vars,
                   wait_vars, saving>>

\* _start_recording() (recordingwindow.py:231-249): the recording thread r
\* is started with the parsed fields.
StartRecording(r) ==
    /\ RecVisible /\ start_btn = "normal"
    /\ pc[r] = "none" /\ \A q \in Runs: q < r => pc[q] # "none"
    /\ IF IsInt(cm_input) /\ IsFloat(speed_input)
       THEN /\ start_btn' = "disabled"
            /\ pc' = [pc EXCEPT ![r] = "arm"]
            /\ args' = [args EXCEPT ![r] = [distance_cm |-> IntVal(cm_input),
                                            speed |-> FloatVal100(speed_input),
                                            direction |-> direction_input]]
       ELSE UNCHANGED <<start_btn, pc, args>>
    /\ UNCHANGED <<sensor_vars, motor_vars, main_vars, cm_input, speed_input,
                   direction_input, tk_after, mainloop, ble_queue, fut,
                   motor_output, now, files, hist_vars, save_vars, api_vars,
                   filter_vars,
                   wait_vars, saving>>

\* _initiate_shutdown() (recordingwindow.py:322-337): close the motor, queue
\* disconnect_device, leave the Tk main loop. The process exits some time
\* after the main loop has returned; a step of another thread after this
\* action is one it takes before that exit.
InitiateShutdown ==
    /\ RecVisible
    /\ serial' = close_serial(serial)
    /\ motor_is_connected' = close_is_connected(serial, motor_is_connected)
    /\ ble_queue' = Append(ble_queue, Job("disconnect_device", 0, FALSE, "none"))
    /\ mainloop' = FALSE
    /\ UNCHANGED <<sensor_vars, commands, main_vars, rec_vars, tk_after,
                   run_vars, now, files, hist_vars, save_vars, api_vars,
                   filter_vars,
                   wait_vars, saving>>

\* A callback queued with after(0, ...) runs on the Tk main loop:
\* _handle_motor_connection_result (mainwindow.py:124-132),
\* _handle_sensor_result (mainwindow.py:193-201) or _recording_finished
\* (recordingwindow.py:301-320).
GuiAfter ==
    /\ mainloop /\ tk_after # <<>>
    /\ LET e == tk_after[1]
       IN  CASE e.cb = "motor_result" ->
                  /\ motor_connected' = e.ok
                  /\ motor_btn' = "normal"
                  /\ start_app_btn' = check_start_condition(e.ok, sensor_connected)
                  /\ UNCHANGED <<sensor_connected, sensor_btn, start_btn, reported>>
             [] e.cb = "sensor_result" ->
                  /\ sensor_connected' = e.ok
                  /\ sensor_btn' = "normal"
                  /\ start_app_btn' = check_start_condition(motor_connected, e.ok)
                  /\ UNCHANGED <<motor_connected, motor_btn, start_btn, reported>>
             [] e.cb = "recording_finished" ->
                  /\ start_btn' = "normal"
                  /\ reported' = [reported EXCEPT ![e.run] = Append(@, e.ok)]
                  /\ UNCHANGED <<motor_connected, sensor_connected, motor_btn,
                                 sensor_btn, start_app_btn>>
    /\ tk_after' = Tail(tk_after)
    /\ UNCHANGED <<sensor_vars, motor_vars, recording_window, motor_task,
                   cm_input, speed_input, direction_input, mainloop, ble_queue,
                   run_vars, now, files, pushes, arm_result, armed_by,
                   dispatched, wrote, waited, fault, stop_calls, save_vars, api_vars,
                   filter_vars,
                   wait_vars, saving>>

\* ------------------------------------------- _recording_task, one thread
\* run_coroutine_threadsafe(start_reading(), ble_loop)  (recordingwindow.py:267)
RunArm(r) ==
    /\ pc[r] = "arm"
    /\ ble_queue' = Append(ble_queue, Job("start_reading", r, FALSE, "arm_wait"))
    /\ fut' = [fut EXCEPT ![r] = "queued"]
    /\ pc' = [pc EXCEPT ![r] = "arm_wait"]
    /\ UNCHANGED <<sensor_vars, motor_vars, main_vars, rec_vars, tk_after,
                   mainloop, args, motor_output, now, files, hist_vars,
                   save_vars, api_vars,
                   filter_vars,
                   wait_vars, saving>>

\* .result(timeout=5) returns: the value is dropped (recordingwindow.py:267)
RunArmResult(r) ==
    /\ pc[r] = "arm_wait" /\ fut[r] = "done"
    /\ pc' = [pc EXCEPT ![r] = "send"]
    /\ fut' = [fut EXCEPT ![r] = "none"]
    /\ UNCHANGED <<sensor_vars, motor_vars, main_vars, rec_vars, tk_after,
                   mainloop, ble_queue, args, motor_output, now, files,
                   hist_vars, save_vars, api_vars,
                   filter_vars,
                   wait_vars, saving>>

\* .result(timeout=5) raises TimeoutError while the coroutine still waits
\* on the loop; the coroutine stays queued (recordingwindow.py:267, 293)
RunArmTimeout(r) ==
    /\ pc[r] = "arm_wait" /\ fut[r] = "queued"
    /\ pc' = [pc EXCEPT ![r] = "except"]
    /\ fut' = [fut EXCEPT ![r] = "none"]
    /\ fault' = [fault EXCEPT ![r] = "arm_timeout"]
    /\ UNCHANGED <<sensor_vars, motor_vars, main_vars, rec_vars, tk_after,
                   mainloop, ble_queue, args, motor_output, now, files,
                   pushes, arm_result, armed_by, dispatched, wrote, waited,
                   stop_calls, reported, save_vars, api_vars,
                   filter_vars,
                   wait_vars, saving>>

\* The motor command is handed to the loop (recordingwindow.py:270-275)
RunSend(r) ==
    /\ pc[r] = "send"
    /\ ble_queue' = Append(ble_queue, Job("to_thread", r, FALSE, "send_wait"))
    /\ fut' = [fut EXCEPT ![r] = "queued"]
    /\ pc' = [pc EXCEPT ![r] = "send_wait"]
    /\ dispatched' = [dispatched EXCEPT ![r] = TRUE]
    /\ UNCHANGED <<sensor_vars, motor_vars, main_vars, rec_vars, tk_after,
                   mainloop, args, motor_output, now, files, pushes,
                   arm_result, armed_by, wrote, waited, fault, stop_calls,
                   reported, save_vars, api_vars,
                   filter_vars,
                   wait_vars, saving>>

\* send_move_command -> _run_command, the guard (motorcontroller.py:37-39)
WorkerCheck(r) ==
    /\ fut[r] = "running"
    /\ IF Disconnected(serial)
       THEN /\ motor_output' = [motor_output EXCEPT ![r] = Sentinel]
            /\ fut' = [fut EXCEPT ![r] = "done"]
       ELSE /\ fut' = [fut EXCEPT ![r] = "writing"]
            /\ UNCHANGED motor_output
    /\ UNCHANGED <<sensor_vars, motor_vars, main_vars, rec_vars, tk_after,
                   mainloop, ble_queue, pc, args, now, files, hist_vars,
                   save_vars, api_vars,
                   filter_vars,
                   wait_vars, saving>>

\* _run_command, the exchange (motorcontroller.py:41-47): the command is
\* written and the response read, or the port raises SerialException (an I/O
\* fault, or a port closed since the guard).
WorkerWrite(r) ==
    /\ fut[r] = "writing"
    /\ \E io_ok \in BOOLEAN:
        IF io_ok /\ serial = "open"
        THEN /\ commands' = Append(commands, args[r])
             /\ motor_output' = [motor_output EXCEPT ![r] = "response"]
             /\ fut' = [fut EXCEPT ![r] = "done"]
             /\ wrote' = [wrote EXCEPT ![r] = [done |-> TRUE, armed |-> is_reading,
                                               own |-> armed_by = r]]
        ELSE /\ fut' = [fut EXCEPT ![r] = "raised"]
             /\ UNCHANGED <<commands, motor_output, wrote>>
    /\ UNCHANGED <<sensor_vars, serial, motor_is_connected, main_vars, rec_vars,
                   tk_after, mainloop, ble_queue, pc, args, now, files,
                   pushes, arm_result, armed_by, dispatched, waited, fault,
                   stop_calls, reported, save_vars, api_vars,
                   filter_vars,
                   wait_vars, saving>>

\* motor_output_future.result() and the print (recordingwindow.py:276-277)
RunSendResult(r) ==
    /\ pc[r] = "send_wait" /\ fut[r] \in {"done", "raised"}
    /\ pc' = [pc EXCEPT ![r] = IF fut[r] = "done" THEN "wait" ELSE "except"]
    /\ fault' = [fault EXCEPT ![r] = IF fut[r] = "done" THEN @ ELSE "send_raised"]
    /\ fut' = [fut EXCEPT ![r] = "none"]
    /\ UNCHANGED <<sensor_vars, motor_vars, main_vars, rec_vars, tk_after,
                   mainloop, ble_queue, args, motor_output, now, files,
                   pushes, arm_result, armed_by, dispatched, wrote, waited,
                   stop_calls, reported, save_vars, api_vars,
                   filter_vars,
                   wait_vars, saving>>

\* time_to_wait = max(10, distance_cm / (speed_mps * 100)) + 1 and the sleep
\* handed to the loop (recordingwindow.py:280-282); a zero speed raises
\* ZeroDivisionError.
RunWait(r) ==
    /\ pc[r] = "wait"
    /\ IF args[r].speed = 0
       THEN /\ pc' = [pc EXCEPT ![r] = "except"]
            /\ fault' = [fault EXCEPT ![r] = "zero_division"]
            /\ UNCHANGED <<ble_queue, fut>>
       ELSE /\ ble_queue' = Append(ble_queue, Job("sleep", r, FALSE, "sleep_wait"))
            /\ fut' = [fut EXCEPT ![r] = "queued"]
            /\ pc' = [pc EXCEPT ![r] = "sleep_wait"]
            /\ UNCHANGED fault
    /\ UNCHANGED <<sensor_vars, motor_vars, main_vars, rec_vars, tk_after,
                   mainloop, args, motor_output, now, files, pushes,
                   arm_result, armed_by, dispatched, wrote, waited, stop_calls,
                   reported, save_vars, api_vars,
                   filter_vars,
                   wait_vars, saving>>

\* The sleep's .result() returns (recordingwindow.py:282)
RunWaitResult(r) ==
    /\ pc[r] = "sleep_wait" /\ fut[r] = "done"
    /\ pc' = [pc EXCEPT ![r] = "stop"]
    /\ fut' = [fut EXCEPT ![r] = "none"]
    /\ waited' = [waited EXCEPT ![r] = TRUE]
    /\ UNCHANGED <<sensor_vars, motor_vars, main_vars, rec_vars, tk_after,
                   mainloop, ble_queue, args, motor_output, now, files,
                   pushes, arm_result, armed_by, dispatched, wrote, fault,
                   stop_calls, reported, save_vars, api_vars,
                   filter_vars,
                   wait_vars, saving>>

\* self.sensor_reader.stop_reading() is evaluated (recordingwindow.py:285):
\* the call raises TypeError unless its arguments bind, and only then is a
\* coroutine handed to the loop.
RunStop(r) ==
    /\ pc[r] = "stop"
    /\ IF StopReadingBinds(StopCallArgs)
       THEN /\ ble_queue' = Append(ble_queue, Job("stop_reading", r, FALSE, "stop_wait"))
            /\ fut' = [fut EXCEPT ![r] = "queued"]
            /\ pc' = [pc EXCEPT ![r] = "stop_wait"]
            /\ UNCHANGED fault
       ELSE /\ pc' = [pc EXCEPT ![r] = "except"]
            /\ fault' = [fault EXCEPT ![r] = "stop_call"]
            /\ UNCHANGED <<ble_queue, fut>>
    /\ UNCHANGED <<sensor_vars, motor_vars, main_vars, rec_vars, tk_after,
                   mainloop, args, motor_output, now, files, pushes,
                   arm_result, armed_by, dispatched, wrote, waited, stop_calls,
                   reported, save_vars, api_vars,
                   filter_vars,
                   wait_vars, saving>>

\* The end of the task (recordingwindow.py:285-299).
\*   after line 285's .result(timeout=5): success is reported, or the
\*     exception / timeout enters the handler;
\*   in the handler, line 295 evaluates stop_reading() again: if the call
\*     binds, the coroutine is queued unawaited and failure is reported; if it
\*     raises, the exception leaves the thread.
\* The window is never destroyed here (closing it is not among the actions),
\* so winfo_exists() holds at lines 290 and 298.
RunFinish(r) ==
    /\ pc[r] \in {"stop_wait", "except"}
    /\ pc[r] = "stop_wait" => fut[r] \in {"done", "raised", "queued"}
    /\ IF pc[r] = "stop_wait"
       THEN IF fut[r] = "done"
            THEN /\ pc' = [pc EXCEPT ![r] = "finished"]
                 /\ tk_after' = Append(tk_after, [cb |-> "recording_finished",
                                                  ok |-> TRUE, run |-> r])
                 /\ UNCHANGED <<ble_queue, fault>>
            ELSE /\ pc' = [pc EXCEPT ![r] = "except"]
                 /\ fault' = [fault EXCEPT ![r] = "stop_raised"]
                 /\ UNCHANGED <<ble_queue, tk_after>>
       ELSE IF StopReadingBinds(StopCallArgs)
            THEN /\ ble_queue' = Append(ble_queue, Job("stop_reading", r, FALSE, "none"))
                 /\ pc' = [pc EXCEPT ![r] = "finished"]
                 /\ tk_after' = Append(tk_after, [cb |-> "recording_finished",
                                                  ok |-> FALSE, run |-> r])
                 /\ UNCHANGED fault
            ELSE /\ pc' = [pc EXCEPT ![r] = "crashed"]
                 /\ UNCHANGED <<ble_queue, tk_after, fault>>
    /\ fut' = [fut EXCEPT ![r] = "none"]
    /\ UNCHANGED <<sensor_vars, motor_vars, main_vars, rec_vars, mainloop, args,
                   motor_output, now, files, pushes, arm_result,
                   armed_by, dispatched, wrote, waited, stop_calls, reported,
                   save_vars, api_vars,
                   filter_vars,
                   wait_vars, saving>>

\* -------------------------------------------------------------------- Spec
Next ==
    \/ MotorButton \/ MotorConnectOpen \/ MotorConnectHandshake
    \/ SensorButton \/ StartApplication
    \/ LoopConnectDevice \/ LoopDisconnectDevice \/ LoopReading
    \/ LoopToThread \/ LoopSleep
    \/ \E r \in Runs: TimerFire(r)
    \/ \E data \in Payloads: Notify(data)
    \/ LinkDrop \/ Tick
    \/ \E text \in CmTexts \cup {""}: EditCm(text)
    \/ \E text \in SpeedTexts \cup {""}: EditSpeed(text)
    \/ \E value \in {0, 1}: SetDirection(value)
    \/ \E r \in 1..MaxRuns: StartRecording(r)
    \/ InitiateShutdown \/ GuiAfter
    \/ \E r \in Runs:
         \/ RunArm(r) \/ RunArmResult(r) \/ RunArmTimeout(r)
         \/ RunSend(r) \/ WorkerCheck(r) \/ WorkerWrite(r) \/ RunSendResult(r)
         \/ RunWait(r) \/ RunWaitResult(r) \/ RunStop(r) \/ RunFinish(r)

Spec == Init /\ [][Next]_vars

(***************************************************************************)
(* FormSpec: the recording window alone. It starts where Spec arrives once *)
(* the motor and the sensor are connected and Start Application has opened *)
(* the window, and follows the operator's edits, direction clicks and      *)
(* Start presses through up to MaxFormRuns recording threads.              *)
(***************************************************************************)
FormSpeedTexts == SpeedTexts \cup {"50"}

WindowOpened ==
    /\ client = "BleakClient" /\ client_is_connected = TRUE /\ notifying = TRUE
    /\ sensor_is_connected = TRUE /\ is_reading = FALSE
    /\ collected_data = <<>> /\ start_time_host_s = 0
    /\ serial = "open" /\ motor_is_connected = TRUE /\ commands = <<>>
    /\ motor_connected = TRUE /\ sensor_connected = TRUE
    /\ motor_btn = "normal" /\ sensor_btn = "normal"
    /\ start_app_btn = "normal" /\ recording_window = "open"
    /\ motor_task = "idle"
    /\ cm_input = "" /\ speed_input = "" /\ direction_input = -1
    /\ start_btn = "disabled"
    /\ tk_after = <<>> /\ mainloop = TRUE /\ ble_queue = <<>>
    /\ pc = [r \in Runs |-> "none"] /\ args = [r \in Runs |-> NoArgs]
    /\ fut = [r \in Runs |-> "none"]
    /\ motor_output = [r \in Runs |-> "none"]
    /\ now = 0 /\ files = <<>>
    /\ pushes = 0
    /\ arm_result = [r \in Runs |-> "none"]
    /\ armed_by = 0
    /\ dispatched = [r \in Runs |-> FALSE]
    /\ wrote = [r \in Runs |-> NotWritten]
    /\ waited = [r \in Runs |-> FALSE]
    /\ fault = [r \in Runs |-> "none"]
    /\ stop_calls = [r \in Runs |-> 0]
    /\ reported = [r \in Runs |-> <<>>]

FormInit ==
    WindowOpened /\ SaveIdle /\ ApiIdle /\ FilterIdle /\ WaitIdle /\ WorkerIdle

FormNext ==
    \/ \E text \in CmTexts \cup {""}: EditCm(text)
    \/ \E text \in FormSpeedTexts \cup {""}: EditSpeed(text)
    \/ \E value \in {0, 1}: SetDirection(value)
    \/ \E r \in Runs: StartRecording(r)
    \/ LoopReading \/ LoopToThread \/ LoopSleep
    \/ \E r \in Runs: TimerFire(r)
    \/ \E r \in Runs:
         \/ RunArm(r) \/ RunArmResult(r) \/ RunArmTimeout(r)
         \/ RunSend(r) \/ WorkerCheck(r) \/ WorkerWrite(r) \/ RunSendResult(r)
         \/ RunWait(r) \/ RunWaitResult(r) \/ RunStop(r) \/ RunFinish(r)

FormSpec == FormInit /\ [][FormNext]_vars

(***************************************************************************)
(* RunSpec: recording runs under telemetry. It starts where Spec arrives   *)
(* once the window is open and the operator has entered a valid distance,  *)
(* speed and direction, and follows the recording threads, the event loop  *)
(* and its worker while notifications arrive over a link that stays up.    *)
(***************************************************************************)
InputsEntered ==
    /\ client = "BleakClient" /\ client_is_connected = TRUE /\ notifying = TRUE
    /\ sensor_is_connected = TRUE /\ is_reading = FALSE
    /\ collected_data = <<>> /\ start_time_host_s = 0
    /\ serial = "open" /\ motor_is_connected = TRUE /\ commands = <<>>
    /\ motor_connected = TRUE /\ sensor_connected = TRUE
    /\ motor_btn = "normal" /\ sensor_btn = "normal"
    /\ start_app_btn = "normal" /\ recording_window = "open"
    /\ motor_task = "idle"
    /\ cm_input = "50" /\ speed_input = "0.5" /\ direction_input = 1
    /\ start_btn = "normal"
    /\ tk_after = <<>> /\ mainloop = TRUE /\ ble_queue = <<>>
    /\ pc = [r \in Runs |-> "none"] /\ args = [r \in Runs |-> NoArgs]
    /\ fut = [r \in Runs |-> "none"]
    /\ motor_output = [r \in Runs |-> "none"]
    /\ now = 0 /\ files = <<>>
    /\ pushes = 0
    /\ arm_result = [r \in Runs |-> "none"]
    /\ armed_by = 0
    /\ dispatched = [r \in Runs |-> FALSE]
    /\ wrote = [r \in Runs |-> NotWritten]
    /\ waited = [r \in Runs |-> FALSE]
    /\ fault = [r \in Runs |-> "none"]
    /\ stop_calls = [r \in Runs |-> 0]
    /\ reported = [r \in Runs |-> <<>>]

RunInit ==
    InputsEntered /\ SaveIdle /\ ApiIdle /\ FilterIdle /\ WaitIdle /\ WorkerIdle

RunNext ==
    \/ \E value \in {0, 1}: SetDirection(value)
    \/ \E r \in 1..MaxRuns: StartRecording(r)
    \/ LoopReading \/ LoopToThread \/ LoopSleep
    \/ \E r \in Runs: TimerFire(r)
    \/ \E data \in Payloads: Notify(data)
    \/ \E r \in Runs:
         \/ RunArm(r) \/ RunArmResult(r) \/ RunArmTimeout(r)
         \/ RunSend(r) \/ WorkerCheck(r) \/ WorkerWrite(r) \/ RunSendResult(r)
         \/ RunWait(r) \/ RunWaitResult(r) \/ RunStop(r) \/ RunFinish(r)

RunSpec == RunInit /\ [][RunNext]_vars

\* -------------------------------------------------------------- SensorSpec
\* The AsyncSensorReader alone, its coroutines called in any order by any
\* caller of its public methods, stop_reading with the two arguments it
\* declares. Each call is recorded in last_call.
StopArgs == {[distance_cm |-> 50, speed |-> 50]}

Flip(seq) == 1 - seq

\* What connect_device() hands its caller (sensorcontroller.py:93, 101, 106,
\* 110); the stale client's disconnect at line 76 is outside the try.
connect_device_ret(outcome) ==
    IF outcome = "ok" THEN "True"
    ELSE IF outcome = "stale_raise" THEN "raised" ELSE "False"

\* What disconnect_device() hands its caller (sensorcontroller.py:114-125);
\* client.disconnect() at line 120 is outside the try.
disconnect_device_ret(raises, conn) ==
    IF raises THEN "raised" ELSE IF conn THEN "True" ELSE "False"

ReaderConnect ==
    /\ \E outcome \in ConnectOutcomes:
        /\ connect_device(outcome)
        /\ last_call' = Call("connect_device", connect_device_ret(outcome),
                             Flip(last_call.seq))
    /\ UNCHANGED <<is_reading, collected_data, start_time_host_s, motor_vars,
                   main_vars, rec_vars, tk_after, mainloop, ble_queue, run_vars,
                   now, files, hist_vars, save_vars, filter_vars,
                   wait_vars, saving>>

ReaderDisconnect ==
    /\ \E raises \in BOOLEAN:
        /\ disconnect_device(raises)
        /\ last_call' = Call("disconnect_device",
                             disconnect_device_ret(raises, sensor_is_connected),
                             Flip(last_call.seq))
    /\ UNCHANGED <<client, is_reading, collected_data, start_time_host_s,
                   motor_vars, main_vars, rec_vars, tk_after, mainloop,
                   ble_queue, run_vars, now, files, hist_vars, save_vars,
                   filter_vars,
                   wait_vars, saving>>

\* start_reading() (sensorcontroller.py:132-140); the caller of the API
\* counts as run 1 in armed_by.
ReaderStart ==
    /\ LET res == start_reading(client, client_is_connected, collected_data,
                                start_time_host_s, is_reading, now)
       IN  /\ collected_data' = res.buf
           /\ start_time_host_s' = res.start
           /\ is_reading' = res.reading
           /\ armed_by' = IF res.ok THEN 1 ELSE armed_by
           /\ last_call' = Call("start_reading", IF res.ok THEN "True" ELSE "False",
                                Flip(last_call.seq))
    /\ UNCHANGED <<client, client_is_connected, notifying, sensor_is_connected,
                   motor_vars, main_vars, rec_vars, tk_after, mainloop,
                   ble_queue, run_vars, now, files, pushes, arm_result,
                   dispatched, wrote, waited, fault, stop_calls, reported,
                   save_vars, filter_vars,
                   wait_vars, saving>>

\* stop_reading(distance_cm, speed_mps) up to its await
\* (sensorcontroller.py:141-153): the flag is cleared and _save_data is
\* started on a worker thread with the buffer itself (the list object, not
\* a copy) and the current start time. One worker at a time is modelled.
ReaderStop(a) ==
    /\ Len(files) < MaxFiles /\ ~saving.on
    /\ is_reading' = FALSE
    /\ saving' = [on |-> TRUE, start |-> start_time_host_s,
                  distance_cm |-> a.distance_cm, speed |-> a.speed]
    /\ UNCHANGED <<client, client_is_connected, notifying, sensor_is_connected,
                   collected_data, start_time_host_s, motor_vars, main_vars,
                   rec_vars, tk_after, mainloop, ble_queue, run_vars, now,
                   files, hist_vars, save_vars, api_vars, filter_vars,
                   wait_vars>>

\* _save_data on the worker thread reads the buffer as it is by then, and
\* stop_reading returns (sensorcontroller.py:147-155, 157-193); a ValueError
\* of _save_data leaves the coroutine through the await at line 147.
SaveWorker ==
    /\ saving.on
    /\ LET saved == save_data(collected_data, saving.start, saving.distance_cm,
                              saving.speed, now)
       IN  /\ files' = IF saved.opened THEN Append(files, saved) ELSE files
           /\ last_call' = Call("stop_reading",
                                IF saved.raised THEN "raised" ELSE "True",
                                Flip(last_call.seq))
    /\ saving' = NotSaving
    /\ UNCHANGED <<sensor_vars, motor_vars, main_vars, rec_vars, tk_after,
                   mainloop, ble_queue, run_vars, now, hist_vars, save_vars,
                   filter_vars, wait_vars>>

SensorNext ==
    \/ ReaderConnect \/ ReaderDisconnect \/ ReaderStart
    \/ \E a \in StopArgs: ReaderStop(a)
    \/ SaveWorker
    \/ \E data \in Payloads: Notify(data)
    \/ LinkDrop \/ Tick

SensorSpec == Init /\ [][SensorNext]_vars

\* ---------------------------------------------------------------- SaveSpec
\* _save_data as a function of its arguments: every buffer of at most MaxLog
\* samples, in every order, against every start time.
Stamps == 0..MaxStamp

SaveLines == {Num(5), Num(999), Quarters(11), Text}

Samples == {<<t, line>> : t \in Stamps, line \in SaveLines}

Logs == UNION {[1..n -> Samples] : n \in 0..MaxLog}

SaveInit ==
    /\ AppInit /\ ApiIdle /\ FilterIdle /\ WaitIdle /\ WorkerIdle
    /\ sv_log \in Logs /\ sv_start \in Stamps
    /\ sv_pc = "ready" /\ sv_out = NoSave

SaveData(a) ==
    /\ sv_pc = "ready"
    /\ sv_out' = save_data(sv_log, sv_start, a.distance_cm, a.speed, now)
    /\ sv_pc' = "done"
    /\ UNCHANGED <<sensor_vars, motor_vars, main_vars, rec_vars, tk_after,
                   mainloop, ble_queue, run_vars, now, files, hist_vars,
                   sv_log, sv_start, api_vars, filter_vars,
                   wait_vars, saving>>

SaveNext == \E a \in StopArgs: SaveData(a)

SaveSpec == SaveInit /\ [][SaveNext]_vars

\* --------------------------------------------------------------- MotorSpec
\* The MotorController alone, its public methods called in any order from
\* any state they leave. Each call is recorded in last_call.
MoveArgs == {[distance_cm |-> 50, speed |-> 50, direction |-> d] : d \in {0, 1}}

\* connect_to_pico() (motorcontroller.py:63-94) on a controller whose serial
\* is ser:
\*   "open_fail"  serial.Serial raises SerialException (line 68): self.serial
\*                keeps what it held
\*   "prompt"     the prompt is seen (lines 81-84)
\*   "silent"     no prompt within the timeout: close() (lines 85-89)
\*   "raise"      a handshake write or read raises SerialException after
\*                self.serial was set (lines 70-79, 91-94)
PicoOutcomes == {"open_fail", "prompt", "silent", "raise"}

connect_to_pico(ser, outcome) ==
    CASE outcome = "open_fail" ->
             [serial |-> ser, is_connected |-> FALSE, ret |-> "False"]
      [] outcome = "prompt" ->
             [serial |-> "open", is_connected |-> TRUE, ret |-> "True"]
      [] outcome = "silent" ->
             [serial |-> close_serial("open"), is_connected |-> FALSE, ret |-> "False"]
      [] outcome = "raise" ->
             [serial |-> "open", is_connected |-> FALSE, ret |-> "False"]

\* send_move_command -> _run_command (motorcontroller.py:35-61) on a
\* controller whose serial is ser: what it returns and whether the command
\* reached the channel; io_ok is FALSE when the port raises SerialException.
run_command(ser, io_ok) ==
    IF Disconnected(ser) THEN [ret |-> Sentinel, wrote |-> FALSE]
    ELSE IF io_ok THEN [ret |-> "response", wrote |-> TRUE]
    ELSE [ret |-> "raised", wrote |-> FALSE]

PicoConnect ==
    /\ \E outcome \in PicoOutcomes:
        LET res == connect_to_pico(serial, outcome)
        IN  /\ serial' = res.serial
            /\ motor_is_connected' = res.is_connected
            /\ last_call' = Call("connect_to_pico", res.ret, Flip(last_call.seq))
    /\ UNCHANGED <<sensor_vars, commands, main_vars, rec_vars, tk_after,
                   mainloop, ble_queue, run_vars, now, files, hist_vars,
                   save_vars, filter_vars,
                   wait_vars, saving>>

PicoClose ==
    /\ serial' = close_serial(serial)
    /\ motor_is_connected' = close_is_connected(serial, motor_is_connected)
    /\ last_call' = Call("close", "None", Flip(last_call.seq))
    /\ UNCHANGED <<sensor_vars, commands, main_vars, rec_vars, tk_after,
                   mainloop, ble_queue, run_vars, now, files, hist_vars,
                   save_vars, filter_vars,
                   wait_vars, saving>>

PicoSend(a) ==
    /\ Len(commands) < MaxCmds
    /\ \E io_ok \in BOOLEAN:
        LET res == run_command(serial, io_ok)
        IN  /\ commands' = IF res.wrote THEN Append(commands, a) ELSE commands
            /\ last_call' = Call("send_move_command", res.ret, Flip(last_call.seq))
    /\ UNCHANGED <<sensor_vars, serial, motor_is_connected, main_vars, rec_vars,
                   tk_after, mainloop, ble_queue, run_vars, now, files,
                   hist_vars, save_vars, filter_vars,
                   wait_vars, saving>>

MotorNext ==
    \/ PicoConnect \/ PicoClose
    \/ \E a \in MoveArgs: PicoSend(a)

MotorSpec == Init /\ [][MotorNext]_vars

\* -------------------------------------------------------------- FilterSpec
\* hampel_filter as a function of its arguments: every float array of at
\* most MaxVals values, every window size up to MaxWindow, two thresholds.
FilterValues == {0, 1, 2, 100}

FilterSigmas == {1, 5}

FilterInputs == UNION {[1..n -> FilterValues] : n \in 0..MaxVals}

\* One call: vals is only read (sensorcontroller.py:18, 25, 31); the writes
\* of line 32 go to the copy made at line 21, which is what is returned.
hampel_call(vals, window_size, n_sigmas) ==
    [vals |-> vals, filtered |-> hampel_filter(vals, window_size, n_sigmas)]

FilterInit ==
    /\ AppInit /\ SaveIdle /\ ApiIdle /\ WaitIdle /\ WorkerIdle
    /\ fl_orig \in FilterInputs /\ fl_vals = [j \in 1..Len(fl_orig) |-> Scale * fl_orig[j]]
    /\ fl_window \in 1..MaxWindow /\ fl_sigmas \in FilterSigmas
    /\ fl_pc = "ready" /\ fl_out = <<>>

ApplyFilter ==
    /\ fl_pc = "ready"
    /\ LET res == hampel_call(fl_vals, fl_window, fl_sigmas)
       IN  fl_vals' = res.vals /\ fl_out' = res.filtered
    /\ fl_pc' = "done"
    /\ UNCHANGED <<sensor_vars, motor_vars, main_vars, rec_vars, tk_after,
                   mainloop, ble_queue, run_vars, now, files, hist_vars,
                   save_vars, api_vars, fl_orig, fl_window, fl_sigmas,
                   wait_vars, saving>>

FilterNext == ApplyFilter

FilterSpec == FilterInit /\ [][FilterNext]_vars

(***************************************************************************)
(* WaitSpec: the open-loop wait of _recording_task as a pure function of   *)
(* the validated run parameters.  Speeds are in hundredths of m/s, so      *)
(* speed_mps * 100 is the number `speed`; the wait is kept as a fraction.  *)
(***************************************************************************)
MinWaitS == 10

time_to_wait_no_floor(distance_cm, speed) ==
    Seconds(distance_cm + speed, speed)

\* time_to_wait = max(10, distance_cm / (speed_mps * 100)) + 1
\* (recordingwindow.py:280), over the common denominator `speed`.
time_to_wait(distance_cm, speed) ==
    Seconds(Max(MinWaitS * speed, distance_cm) + speed, speed)

WaitSpeeds == {1, 5, 10, 11, 50, 100}

WaitInit ==
    /\ AppInit /\ SaveIdle /\ ApiIdle /\ FilterIdle /\ WorkerIdle
    /\ wt_cm \in 1..MaxCm /\ wt_speed \in WaitSpeeds
    /\ wt_pc = "ready" /\ wt_out = Seconds(0, 1)

ComputeWait ==
    /\ wt_pc = "ready"
    /\ wt_out' = time_to_wait(wt_cm, wt_speed)
    /\ wt_pc' = "done"
    /\ UNCHANGED <<sensor_vars, motor_vars, main_vars, rec_vars, tk_after,
                   mainloop, ble_queue, run_vars, now, files, hist_vars,
                   save_vars, api_vars, filter_vars, wt_cm, wt_speed, saving>>

WaitNext == ComputeWait

WaitSpec == WaitInit /\ [][WaitNext]_vars

\* ------------------------------------------------------------------ claims
RunEnded(r) == pc[r] \in {"finished", "crashed"}

\* The outcomes run r has handed to _recording_finished: those already shown
\* and those still queued with after(0, ...).
PendingReports(r) ==
    SelectSeq(tk_after, LAMBDA e: e.cb = "recording_finished" /\ e.run = r)

Outcomes(r) ==
    reported[r] \o [j \in 1..Len(PendingReports(r)) |-> PendingReports(r)[j].ok]

\* The disarms run r has asked for: stop_reading bodies run, and stop_reading
\* coroutines still queued on the loop.
DisarmCalls(r) ==
    stop_calls[r]
    + Len(SelectSeq(ble_queue, LAMBDA j: j.kind = "stop_reading" /\ j.run = r))

DisarmPending == \E k \in 1..Len(ble_queue): ble_queue[k].kind = "stop_reading"

\* C1: a run in which a step raised or timed out has, when it ends, asked
\* for the cleanup disarm, left the sensor not armed (once no disarm is still
\* queued), and reported failure.
C1_FaultDisarmsAndReportsFailure ==
    \A r \in Runs:
        RunEnded(r) /\ fault[r] # "none" =>
            /\ DisarmCalls(r) >= 1
            /\ ~DisarmPending => ~is_reading
            /\ Outcomes(r) = <<FALSE>>

\* C2: in a run that armed, telemetry is armed from the dispatch of the motion
\* command until the wait has completed, is disarmed after the wait and
\* before the run ends, and is never disarmed before the wait completes.
C2_ArmedWindowCoversWait ==
    \A r \in Runs:
        arm_result[r] = "True" =>
            /\ pc[r] \in {"send_wait", "wait", "sleep_wait"} => is_reading
            /\ RunEnded(r) /\ waited[r] => DisarmCalls(r) >= 1
            /\ stop_calls[r] > 0 => waited[r]

\* C3: when a run's motion command is written, the run's start_reading has
\* completed with True and the reader is armed with this run's start time.
C3_CommandOnlyWhenArmed ==
    \A r \in Runs:
        wrote[r].done =>
            arm_result[r] = "True" /\ wrote[r].armed /\ wrote[r].own

\* C4: a run that has ended reported exactly one outcome, and no exception
\* left its thread.
C4_ExactlyOneOutcome ==
    \A r \in Runs:
        RunEnded(r) => pc[r] = "finished" /\ Len(Outcomes(r)) = 1

\* C5: a run that armed, wrote its command and waited out the motion, with no
\* transport or write fault, ends having disarmed (and so saved) and reported
\* success.
C5_CleanRunReportsSuccess ==
    \A r \in Runs:
        /\ RunEnded(r) /\ arm_result[r] = "True" /\ wrote[r].done /\ waited[r]
        /\ fault[r] \notin {"arm_timeout", "send_raised", "zero_division", "stop_raised"}
        => stop_calls[r] = 1 /\ Outcomes(r) = <<TRUE>>

\* C6: a run whose send_move_command returned the ERROR: DISCONNECTED
\* sentinel has, when it ends, asked for the disarm exactly once and reported
\* failure.
C6_DisconnectedSendDisarmsOnce ==
    \A r \in Runs:
        RunEnded(r) /\ motor_output[r] = Sentinel =>
            DisarmCalls(r) = 1 /\ Outcomes(r) = <<FALSE>>

\* C7: a run whose arming was not confirmed (its start_reading returned
\* False, or the result timed out) is on its failure path and has not
\* dispatched the motion command.
C7_UnconfirmedArmNeverDispatches ==
    \A r \in Runs:
        /\ fault[r] = "arm_timeout" =>
               ~dispatched[r] /\ pc[r] \in {"except", "finished", "crashed"}
        /\ arm_result[r] = "False" /\ fault[r] # "arm_timeout" =>
               ~dispatched[r] /\ pc[r] \in {"arm_wait", "except", "finished", "crashed"}

\* The time a persisted row carries, read back from its six-decimal field.
RowTime(row) == row.time[1] * 1000000 + row.time[2]

\* C8: every row _save_data writes carries a host time >= start_time, and no
\* buffered sample earlier than start_time appears among the rows.
C8_NoPreStartRows ==
    sv_pc = "done" =>
        /\ \A j \in 1..Len(sv_out.rows): RowTime(sv_out.rows[j]) >= sv_start
        /\ \A k \in 1..Len(sv_log):
               sv_log[k][1] < sv_start =>
                   \A j \in 1..Len(sv_out.rows):
                       sv_out.rows[j].time # Format6(sv_log[k][1])

\* C8 witness: a file was written from a buffer in which a pre-start sample
\* follows a retained one.
C8_Witness ==
    /\ sv_pc = "done" /\ sv_out.opened /\ Len(sv_out.rows) >= 2
    /\ \E k \in 2..Len(sv_log): sv_log[k][1] < sv_start /\ sv_log[1][1] >= sv_start

\* The buffered samples with host_time >= start_time, in buffer order.
Retained == SelectSeq(sv_log, LAMBDA e: e[1] >= sv_start)

\* C9: the rows _save_data persists are the retained samples, one row each,
\* in buffer order, each with its own host time and raw line.
C9_RowsAreRetainedSamples ==
    sv_pc = "done" =>
        /\ Len(sv_out.rows) = Len(Retained)
        /\ \A j \in 1..Len(sv_out.rows):
               /\ sv_out.rows[j].time = Format6(Retained[j][1])
               /\ sv_out.rows[j].raw = Retained[j][2]

\* C10: a notification handled while the reader is not armed leaves the
\* buffer as it was; one handled while armed appends one sample stamped with
\* its arrival time; either way nothing else of the reader changes.
C10_PushFrame ==
    [][pushes' = pushes + 1 =>
        /\ IF is_reading
           THEN /\ Len(collected_data') = Len(collected_data) + 1
                /\ SubSeq(collected_data', 1, Len(collected_data)) = collected_data
                /\ collected_data'[Len(collected_data')][1] = now
                /\ \E data \in Payloads:
                       collected_data'[Len(collected_data')][2] = Decode(data)
           ELSE collected_data' = collected_data
        /\ UNCHANGED <<client, client_is_connected, notifying,
                       sensor_is_connected, is_reading, start_time_host_s,
                       files>>]_vars

\* C10 witness: two notifications were handled, the first while not armed
\* (dropped), the second while armed (buffered).
C10_Witness ==
    pushes = 2 /\ is_reading /\ Len(collected_data) = 1

\* A step that is a call of the API method op.
Called(op) == last_call'.seq # last_call.seq /\ last_call'.op = op

\* C11: while no start_reading has ever armed the reader its buffer is empty
\* and no step persists anything (a stop_reading then saves nothing); an arm
\* that follows a disarm leaves the buffer empty, and any other step leaves
\* the buffer as it was or longer by the one sample of a push.
C11_DisarmArmBuffer ==
    [][/\ armed_by = 0 => collected_data = <<>> /\ files' = files
       /\ Called("start_reading") /\ ~is_reading /\ is_reading' =>
              collected_data' = <<>>
       /\ ~Called("start_reading") =>
              \/ collected_data' = collected_data
              \/ /\ pushes' = pushes + 1
                 /\ Len(collected_data') = Len(collected_data) + 1
                 /\ SubSeq(collected_data', 1, Len(collected_data)) = collected_data]_vars

\* C11 witness: a sample was buffered and persisted by a disarm, the reader
\* was armed again, and the one sample now buffered was pushed after that.
C11_Witness ==
    /\ files # <<>> /\ is_reading /\ pushes = 2 /\ Len(collected_data) = 1
    /\ last_call.op = "start_reading" /\ last_call.ret = "True"

\* The buffered samples stop_reading hands to _save_data that are numeric
\* and not older than the start time.
NumericRetained ==
    SelectSeq(collected_data, LAMBDA e: e[1] >= start_time_host_s /\ e[2].numeric)

\* C12: a push handled while armed, malformed or not, adds one sample to the
\* buffer; and a stop_reading whose buffer holds numeric retained samples
\* writes a file with a row for each of them, whatever else is buffered.
C12_MalformedLineKeptAndSaved ==
    [][/\ pushes' = pushes + 1 /\ is_reading =>
              Len(collected_data') = Len(collected_data) + 1
       /\ Called("stop_reading") /\ NumericRetained # <<>> =>
              /\ Len(files') = Len(files) + 1
              /\ \A k \in 1..Len(NumericRetained):
                     \E j \in 1..Len(files'[Len(files')].rows):
                         LET row == files'[Len(files')].rows[j]
                         IN  /\ row.time = Format6(NumericRetained[k][1])
                             /\ row.raw = NumericRetained[k][2]]_vars

\* A successful write, for comparison of what the caller is handed.
WrittenSave == save_data(<<<<sv_start, Num(5)>>>>, sv_start, 50, 50, now)

\* C13: a _save_data call with nothing to persist (an empty buffer, or only
\* samples older than start_time) creates neither the directory nor a file,
\* and returns something other than what a successful write returns.
C13_NothingToPersist ==
    sv_pc = "done" /\ Retained = <<>> =>
        /\ ~sv_out.dir /\ ~sv_out.opened
        /\ sv_out.ret # WrittenSave.ret

\* C14: a send_move_command made while the serial is unset or closed returns
\* the sentinel, does not raise, and leaves the channel and the controller as
\* they were.
C14_DisconnectedSendReturnsSentinel ==
    [][Called("send_move_command") /\ serial # "open" =>
           /\ last_call'.ret = Sentinel
           /\ UNCHANGED <<commands, serial, motor_is_connected>>]_vars

\* C14 witness: a send made after close() returned the sentinel.
C14_Witness ==
    /\ last_call = Call("send_move_command", Sentinel, last_call.seq)
    /\ serial = "closed" /\ commands = <<>>

\* C15: after a close() the serial is not open and is_connected is False;
\* a close() on a serial that is unset or already closed changes nothing.
C15_CloseIdempotent ==
    [][Called("close") =>
           /\ serial' # "open" /\ ~motor_is_connected'
           /\ last_call'.ret # "raised"
           /\ serial # "open" => UNCHANGED <<serial, motor_is_connected, commands>>]_vars

\* C15 witness: close() was called on a controller that never opened a port.
C15_Witness ==
    last_call.op = "close" /\ serial = "None"

\* C16: a connect_to_pico() that returns False leaves no open serial on the
\* controller and is_connected False.
C16_ConnectFailsClosed ==
    [][Called("connect_to_pico") /\ last_call'.ret = "False" =>
           serial' # "open" /\ ~motor_is_connected']_vars

\* C17: a disconnect_device() on a connected reader returns True and leaves
\* is_connected False; on a reader that is not connected it returns False and
\* leaves the client as it was; called right after another disconnect_device()
\* it returns False.
C17_DisconnectIdempotent ==
    [][Called("disconnect_device") =>
           /\ sensor_is_connected =>
                  last_call'.ret = "True" /\ ~sensor_is_connected'
           /\ ~sensor_is_connected =>
                  /\ last_call'.ret = "False"
                  /\ UNCHANGED <<client, client_is_connected, notifying>>
           /\ last_call.op = "disconnect_device" => last_call'.ret = "False"]_vars

\* C18: a connect_device() returns True or False and never raises; it returns
\* False with is_connected False, and True only with is_connected True, the
\* link up and the notification subscription active.
C18_ConnectNeverRaises ==
    [][Called("connect_device") =>
           /\ last_call'.ret \in {"True", "False"}
           /\ last_call'.ret = "False" => ~sensor_is_connected'
           /\ last_call'.ret = "True" =>
                  sensor_is_connected' /\ client_is_connected' /\ notifying']_vars

\* The filter as the claims word it, on the original input in quarters.
\* The k-th smallest element of a sequence, by counting.
KthSmallest(w, k) ==
    CHOOSE v \in {w[j] : j \in 1..Len(w)}:
        /\ Cardinality({j \in 1..Len(w) : w[j] < v}) < k
        /\ Cardinality({j \in 1..Len(w) : w[j] <= v}) >= k

RefMedian(w) ==
    IF Len(w) % 2 = 1 THEN KthSmallest(w, (Len(w) + 1) \div 2)
    ELSE (KthSmallest(w, Len(w) \div 2) + KthSmallest(w, Len(w) \div 2 + 1)) \div 2

\* The centered window [max(0, i - w//2), min(n, i + w//2 + 1)) of index i
\* (0-based) of the original input.
RefWindow(i) ==
    LET lo == IF i - fl_window \div 2 > 0 THEN i - fl_window \div 2 ELSE 0
        hi == IF i + fl_window \div 2 + 1 < Len(fl_orig)
              THEN i + fl_window \div 2 + 1 ELSE Len(fl_orig)
    IN  [j \in 1..(hi - lo) |-> Scale * fl_orig[lo + j]]

RefMed(i) == RefMedian(RefWindow(i))

RefMad(i) ==
    RefMedian([j \in 1..Len(RefWindow(i)) |->
                  IF RefWindow(i)[j] >= RefMed(i)
                  THEN RefWindow(i)[j] - RefMed(i)
                  ELSE RefMed(i) - RefWindow(i)[j]])

RefDev(i) ==
    IF Scale * fl_orig[i + 1] >= RefMed(i)
    THEN Scale * fl_orig[i + 1] - RefMed(i)
    ELSE RefMed(i) - Scale * fl_orig[i + 1]

IsConstant(vals) == \A j, k \in 1..Len(vals): vals[j] = vals[k]

\* C19: every index whose window has MAD 0 comes out equal to its input; on
\* a constant sequence the output is the input and filtering the output
\* again returns it unchanged.
C19_ZeroMadLeavesInput ==
    fl_pc = "done" =>
        /\ Len(fl_out) = Len(fl_orig)
        /\ \A i \in 0..(Len(fl_orig) - 1):
               RefMad(i) = 0 => fl_out[i + 1] = Scale * fl_orig[i + 1]
        /\ IsConstant(fl_orig) =>
               /\ fl_out = [j \in 1..Len(fl_orig) |-> Scale * fl_orig[j]]
               /\ hampel_filter(fl_out, fl_window, fl_sigmas) = fl_out

\* C19 witness: the filter ran on a sequence with an index whose window has
\* MAD 0 and whose value is not the window's median.
C19_Witness ==
    /\ fl_pc = "done"
    /\ \E i \in 0..(Len(fl_orig) - 1): RefMad(i) = 0 /\ RefDev(i) # 0

\* C20: for an odd window size the output has the input's length, each
\* output[i] is the median of the centered window of the original input when
\* its MAD is not 0 and |input[i] - median| > n_sigmas * 1.4826 * MAD, and
\* input[i] otherwise; the input array is as it was.
C20_HampelDefinition ==
    fl_pc = "done" /\ fl_window % 2 = 1 =>
        /\ Len(fl_out) = Len(fl_orig)
        /\ \A i \in 0..(Len(fl_orig) - 1):
               fl_out[i + 1] =
                   IF RefMad(i) # 0 /\ 10000 * RefDev(i) > fl_sigmas * 14826 * RefMad(i)
                   THEN RefMed(i)
                   ELSE Scale * fl_orig[i + 1]
        /\ fl_vals = [j \in 1..Len(fl_orig) |-> Scale * fl_orig[j]]

\* C20 witness: the filter ran with an odd window and replaced a value whose
\* window is clipped at the start of the sequence.
C20_Witness ==
    /\ fl_pc = "done" /\ fl_window % 2 = 1
    /\ \E i \in 0..(Len(fl_orig) - 1):
           /\ fl_out[i + 1] # Scale * fl_orig[i + 1]
           /\ i < fl_window \div 2

(***************************************************************************)
(* C21: for every validated input (distance_cm > 0, 0 < speed_mps <= 1)    *)
(* the open-loop wait is max(10, distance_cm / (speed_mps * 100)) + 1      *)
(* seconds: 11 s when the travel time is at most 10 s, the travel time     *)
(* plus one second otherwise; it is never below 11 s, and for 100 cm at    *)
(* 0.1 m/s it is exactly 11 s.                                             *)
(***************************************************************************)
TravelWithin(d, sp, secs) == d <= secs * sp

C21_WaitIsFlooredTravelPlusOne ==
    wt_pc = "done" =>
        /\ wt_cm > 0 /\ 0 < wt_speed /\ wt_speed <= 100
        /\ wt_out.den > 0
        /\ IF TravelWithin(wt_cm, wt_speed, 10)
           THEN wt_out.num = 11 * wt_out.den
           ELSE wt_out.num * wt_speed = (wt_cm + wt_speed) * wt_out.den
        /\ wt_out.num >= 11 * wt_out.den
        /\ (wt_cm = 100 /\ wt_speed = 10) => wt_out.num = 11 * wt_out.den

C21_Witness ==
    /\ wt_pc = "done" /\ wt_cm = 100 /\ wt_speed = 10
    /\ wt_out.num = 11 * wt_out.den


(***************************************************************************)
(* C22: each suspension point of a run (arm confirmation, command          *)
(* dispatch-and-wait, the open-loop sleep, disarm confirmation) carries a  *)
(* timeout: whenever a run waits at one of them for an operation that has  *)
(* not completed, the run's own thread can still take a step that leaves   *)
(* the suspension point, so a step that never completes cannot block the   *)
(* run forever.                                                            *)
(***************************************************************************)
SuspensionPoints == {"arm_wait", "send_wait", "sleep_wait", "stop_wait"}

Suspended(r) == pc[r] \in SuspensionPoints /\ fut[r] \notin {"done", "raised"}

\* The steps of _recording_task that return from a .result(...) call.
ThreadResumes(r) ==
    \/ RunArmResult(r) \/ RunArmTimeout(r) \/ RunSendResult(r)
    \/ RunWaitResult(r) \/ RunFinish(r)

C22_EverySuspensionTimesOut ==
    \A r \in Runs: Suspended(r) => ENABLED ThreadResumes(r)

(***************************************************************************)
(* C23: an external abort request (Quit, _initiate_shutdown) issued while  *)
(* a run is in its open-loop motion wait interrupts the wait, so that the  *)
(* run can proceed to Stopping at once, and an aborted run that got as far *)
(* as its wait never ends with the telemetry transport still armed.        *)
(***************************************************************************)
AbortRequested == mainloop /\ ~mainloop'

InMotionWait(r) == pc[r] = "sleep_wait" /\ fut[r] \in {"queued", "sleeping"}

C23_AbortInterruptsWait ==
    [][\A r \in Runs:
         /\ (AbortRequested /\ InMotionWait(r)) => ~InMotionWait(r)'
         /\ (~mainloop' /\ waited'[r] /\ RunEnded(r)') => ~is_reading']_vars

(***************************************************************************)
(* C24: while a run's motion command exchange (the worker is in            *)
(* send_move_command) or its motion-duration wait (the sleep timer runs)   *)
(* is in progress, the telemetry event loop is not blocked: any            *)
(* notification the live subscription delivers can be dispatched to        *)
(* notification_handler at once and, the sensor being armed, is appended   *)
(* to the buffer before the exchange or the wait completes.                *)
(***************************************************************************)
ExchangeOrWaitInProgress(r) ==
    \/ pc[r] = "send_wait" /\ fut[r] \in {"running", "writing"}
    \/ pc[r] = "sleep_wait" /\ fut[r] = "sleeping"

Subscribed == client # "None" /\ client_is_connected /\ notifying

C25_BufferUntouchedDuringSave ==
    [][saving.on => collected_data' = collected_data]_vars

(***************************************************************************)
(* C27: each completed save writes to a uniquely named artifact: no two    *)
(* saves (from successive runs or repeated disarms) target the same file   *)
(* name, so a later save never overwrites the file of an earlier one.      *)
(***************************************************************************)
C27_SaveNamesDistinct ==
    \A i, j \in 1..Len(files): i < j => files[i].file # files[j].file

(***************************************************************************)
(* C28: the filtered column written for each persisted row is the          *)
(* filtered value rounded to the nearest integer: the written integer is   *)
(* at most one half away from the filtered value (either choice is         *)
(* accepted at an exact half), for every filtered value.                   *)
(***************************************************************************)
FilteredOfRetained ==
    hampel_filter([j \in 1..Len(Retained) |-> Retained[j][2].val],
                  WindowSize, NSigmas)

C28_FilteredColumnIsNearestInteger ==
    (sv_pc = "done" /\ sv_out.opened) =>
        \A j \in 1..Len(sv_out.rows):
            2 * Abs(Scale * sv_out.rows[j].filt - FilteredOfRetained[j]) <= Scale

(***************************************************************************)
(* C29: at most one recording task is in progress at any time: once Start  *)
(* Recording has launched a run, no second run is started (by any sequence *)
(* of input edits, direction clicks or button presses) until the first has *)
(* ended.                                                                  *)
(***************************************************************************)
InProgress(r) == pc[r] # "none" /\ ~RunEnded(r)

C29_AtMostOneRunInProgress ==
    \A r, q \in Runs: (InProgress(r) /\ InProgress(q)) => r = q

(***************************************************************************)
(* C26: a run request whose parameters are out of range (distance <= 0,    *)
(* or speed outside (0, 1]) is rejected before Arming: after any sequence  *)
(* of input edits, direction selections and earlier runs, every recording  *)
(* task that exists holds in-range parameters, so the sensor is never      *)
(* armed for, and no motor command is ever sent with, out-of-range ones.   *)
(***************************************************************************)
InRange(a) == a.distance_cm > 0 /\ 0 < a.speed /\ a.speed <= 100

C30_ArmedOnlyDuringRun ==
    (\A r \in Runs: ~InProgress(r)) => ~is_reading

(***************************************************************************)
(* C31: for the motion transport, in every state between calls (no         *)
(* connect_to_pico in progress), is_connected is True if and only if a     *)
(* serial channel is set and open, after any sequence of connect_to_pico   *)
(* calls (succeeding or failing either way) and close calls.               *)
(***************************************************************************)
ChannelOpen == serial = "open"

C31_ConnectedIffChannelOpen == motor_is_connected <=> ChannelOpen

====
